---- MODULE Spec2Model ----
(***************************************************************************)
(* A model of the Complot crawler's orchestration and concurrency engine:  *)
(* the per-identifier detail fetch with its retry policy, the semaphore    *)
(* that gates a batch of fetches, and the phased crawl (street discovery,  *)
(* record enumeration, detail fetch) over its persisted snapshots.         *)
(***************************************************************************)
EXTENDS Integers, Sequences, FiniteSets, TLC

(***************************************************************************)
(* Program constants.                                                      *)
(***************************************************************************)
MAX_RETRIES == 3
RETRY_DELAY == 2

(***************************************************************************)
(* Bounds of the model.  MAX_CONCURRENT and SAVE_INTERVAL are 20 and 100   *)
(* in the program; the model scales them down with the batch.  MaxHouse    *)
(* stands for the 499 house numbers of range(1, 500) and                   *)
(* max_consecutive_empty is 30 in the program.                             *)
(***************************************************************************)
MAX_CONCURRENT == 2
NumTasks == 3
SAVE_INTERVAL == 1
RECORDS_CHECKPOINT_EVERY == 2
MaxStreet == 2
MaxTik == 2
MaxWorkers == 2
MaxHouse == 5
max_consecutive_empty == 2
NumPieces == 2
MaxTextLen == 2
MaxRecs == 2
MaxItems == 5
MaxPool == 3

VARIABLES fv, fpc, fretry, fhist, fdelays, fresult

fetchVars == <<fv, fpc, fretry, fhist, fdelays, fresult>>

VARIABLES sv, sem, spc, sretry, sheld, sstatus

semVars == <<sv, sem, spc, sretry, sheld, sstatus>>

(***************************************************************************)
(* The crawl: the remote, the files of the output directory, the arguments *)
(* of run_full_crawl and its locals.                                       *)
(*   remoteStreets            the street codes the remote answers for      *)
(*   streets_file             streets.json                                 *)
(*   records_file             building_records.json                        *)
(*   checkpoint_file          checkpoint.json                              *)
(*   details_checkpoint_file  details_checkpoint.json                      *)
(*   details_file             building_details.json                        *)
(*   pc                       where run_full_crawl stands                  *)
(*   enumerated               street codes whose house numbers were        *)
(*                            walked in this run                           *)
(*   probed                   street codes tested by the discovery of this *)
(*                            run                                          *)
(*   written                  the files of the output directory this run   *)
(*                            has written                                  *)
(*   requested                identifiers a detail request was issued for  *)
(*                            in this run                                  *)
(*   streets_before, records_before, details_before   the snapshots as the *)
(*                            run found them                               *)
(*   killedNew                new codes persisted by a run that was killed *)
(*                            before their records were merged, the remote *)
(*                            being unchanged since                        *)
(***************************************************************************)
VARIABLES remoteStreets,
          streets_file, records_file, checkpoint_file,
          details_checkpoint_file, details_file,
          pc, force, streets_only, skip_details, retry_errors, workers, resume,
          all_streets, new_streets, new_codes, removed_codes,
          existing_records, new_records, records,
          completed, remaining, batch_idx, pending, details,
          enumerated, requested, streets_before, records_before, details_before,
          killedNew, probed, written

remoteVars == <<remoteStreets>>

fileVars ==
  <<streets_file, records_file, checkpoint_file, details_checkpoint_file, details_file>>

argVars == <<force, streets_only, skip_details, retry_errors, workers, resume>>

discoverVars == <<all_streets, new_streets, new_codes, removed_codes>>

recordVars == <<existing_records, new_records, records>>

detailVars == <<completed, remaining, batch_idx, pending, details>>

historyVars ==
  <<enumerated, requested, streets_before, records_before, details_before, killedNew,
    probed, written>>

crawlVars ==
  <<remoteVars, fileVars, pc, argVars, discoverVars, recordVars, detailVars, historyVars>>

(***************************************************************************)
(* The walk of one street's house numbers by the record enumeration.       *)
(*   wv       the implementation that walks                                *)
(*   wpc      "get" while a probe is out, "done" when the walk returned    *)
(*   whouse   house_num, the house number being probed                     *)
(*   wempty   consecutive_empty                                            *)
(*   whist    the outcomes of the probes issued so far                     *)
(***************************************************************************)
VARIABLES wv, wpc, whouse, wempty, whist

walkVars == <<wv, wpc, whouse, wempty, whist>>

(***************************************************************************)
(* The test of one candidate street code by the street discovery.          *)
(*   pv       the implementation that tests                                *)
(*   pidx     the index in the house number list of the probe that is out  *)
(*   phist    the outcomes of the probes issued so far                     *)
(*   phouses  the house numbers probed so far                              *)
(*   presult  "pending", "street" (a dict was returned) or "none"          *)
(***************************************************************************)
VARIABLES pv, pidx, phist, phouses, presult

probeVars == <<pv, pidx, phist, phouses, presult>>

(***************************************************************************)
(* One JSON file of the output directory and the saves that write it.      *)
(*   jfile    the file as a reader finds it                                *)
(*   jbefore  the file as the save in progress found it                    *)
(*   jdata    the text json.dump is writing                                *)
(*   jpc      "idle", "writing" (between open and close) or "killed"       *)
(***************************************************************************)
VARIABLES jfile, jbefore, jdata, jpc

saveVars == <<jfile, jbefore, jdata, jpc>>

(***************************************************************************)
(* fetch_building_details from its first line, the credential test         *)
(* included.                                                               *)
(*   yapi       config.api_type                                            *)
(*   yid        whether an israeli_id was supplied                         *)
(*   yrecs      the records it is called with                              *)
(*   ypc        "call" or "returned"                                       *)
(*   ydetails   the list it returns                                        *)
(*   yrequests  the identifiers a request was issued for                   *)
(***************************************************************************)
VARIABLES yapi, yid, yrecs, ypc, ydetails, yrequests

synthVars == <<yapi, yid, yrecs, ypc, ydetails, yrequests>>

(***************************************************************************)
(* One full run against a reliable remote that knows one street.           *)
(*   ehouses   the house numbers of the street that have a building file   *)
(*   epc       the phase the run is in                                     *)
(*   estreets  the street codes discovered                                 *)
(*   erecords  the records fetched                                         *)
(*   edetails  the details fetched: identifier -> fetch_status             *)
(***************************************************************************)
VARIABLES ehouses, epc, estreets, erecords, edetails

endVars == <<ehouses, epc, estreets, erecords, edetails>>

(***************************************************************************)
(* The split of a work list into the chunks handed to the worker pool.     *)
(*   cwork    the work list                                                *)
(*   cw       self.workers                                                 *)
(*   cpc      "list" or "split"                                            *)
(*   cchunks  the chunks                                                   *)
(*   crange   the scan range <<start, end>> of the discovery               *)
(*   cranges  the code ranges handed to the discovery workers              *)
(***************************************************************************)
VARIABLES cwork, cw, cpc, cchunks, crange, cranges

chunkVars == <<cwork, cw, cpc, cchunks, crange, cranges>>

unitVars == <<synthVars, endVars, chunkVars>>

otherVars == <<walkVars, probeVars, saveVars, unitVars>>

None == [status |-> "none", error |-> ""]

(***************************************************************************)
(* The detail-fetch implementations of the repository.                     *)
(*   crawler   ComplotCrawler._fetch_single_detail                         *)
(*   bakasha   ComplotCrawler._fetch_single_bakasha_detail                 *)
(*   worker    _async_fetch_single_detail     (process-pool worker)        *)
(*   fetcher   BuildingFetcher.fetch_detail                                *)
(*   fworker   async_fetch_building_detail    (process-pool worker)        *)
(*   script    fetch_building_detail          (fetch_building_details.py)  *)
(*   request   RequestFetcher.fetch_request                                *)
(*   reqworker async_fetch_request_detail     (process-pool worker)        *)
(***************************************************************************)
Variants ==
  {"crawler", "bakasha", "worker", "fetcher", "fworker", "script",
   "request", "reqworker"}

BuildingVariants == {"crawler", "worker", "fetcher", "fworker", "script"}

(* What one HTTP request can come to: a 200 whose body parses to a detail, *)
(* a 200 whose body carries the no-data marker, a non-200 status, a        *)
(* timeout, any other exception (connection failure).                      *)
Outcomes == {"ok", "nodata", "http", "timeout", "exc"}

(* The variants that take the semaphore inside the function, so that the   *)
(* recursive retry call takes it again while the caller still holds it.    *)
NestedSemaphore(v) == v \in {"crawler", "bakasha", "script"}

(* The variants whose "except Exception" branch retries.                   *)
RetriesException(v) == v \in {"fetcher", "fworker", "script", "request"}

(* The variants whose parser checks the no-data marker.                    *)
ChecksNoData(v) == v # "script"

RECURSIVE Pow2(_)
Pow2(n) == IF n = 0 THEN 1 ELSE 2 * Pow2(n - 1)

BackoffDelayLinear(retry) == RETRY_DELAY * (retry + 1)

(* RETRY_DELAY * (2 ** retry) *)
BackoffDelay(retry) == RETRY_DELAY * Pow2(retry)

Return(status, error) ==
  [act |-> "return", status |-> status, error |-> error, sleeps |-> FALSE, delay |-> 0]

Retry(sleeps, delay) ==
  [act |-> "retry", status |-> "pending", error |-> "", sleeps |-> sleeps, delay |-> delay]

(* a parser that flags the no-data page and leaves the status of every    *)
(* other page as it was created                                            *)
ParseDetailLeavesPending(v, o) ==
  IF o = "nodata" /\ ChecksNoData(v)
  THEN Return("error", "No data available")
  ELSE Return("pending", "")

(* The parser's verdict on a 200 body.                                     *)
ParseDetail(v, o) ==
  IF o = "nodata" /\ ChecksNoData(v)
  THEN Return("error", "No data available")
  ELSE Return("success", "")

(* except Exception as e: of the recursive variants                         *)
OnException(v, retry) ==
  IF RetriesException(v) /\ retry < MAX_RETRIES
  THEN Retry(TRUE, BackoffDelay(retry))
  ELSE Return("error", "Exception")

(* except asyncio.TimeoutError: of the recursive variants                   *)
OnTimeout(retry) ==
  IF retry < MAX_RETRIES
  THEN Retry(TRUE, BackoffDelay(retry))
  ELSE Return("error", "Timeout")

(* One attempt of a recursive variant: the body of the try statement and   *)
(* its except clauses, at recursion depth retry.                           *)
RecursiveAttempt(v, o, retry) ==
  CASE o \in {"ok", "nodata"} -> ParseDetail(v, o)
    [] o = "http"             -> Return("error", "HTTP")
    [] o = "timeout"          -> OnTimeout(retry)
    [] o = "exc"              -> OnException(v, retry)

(* One pass of the for loop of async_fetch_request_detail: a non-200       *)
(* status continues with the next attempt without sleeping; any exception, *)
(* a timeout included, sleeps RETRY_DELAY unless it is the last attempt;   *)
(* falling out of the loop returns "Max retries exceeded".                 *)
LoopAttempt(v, o, attempt) ==
  CASE o \in {"ok", "nodata"} -> ParseDetail(v, o)
    [] o = "http" ->
         IF attempt + 1 < MAX_RETRIES
         THEN Retry(FALSE, 0)
         ELSE Return("error", "Max retries exceeded")
    [] o \in {"timeout", "exc"} ->
         IF attempt = MAX_RETRIES - 1
         THEN Return("error", "Exception")
         ELSE Retry(TRUE, RETRY_DELAY)

Attempt(v, o, retry) ==
  IF v = "reqworker" THEN LoopAttempt(v, o, retry) ELSE RecursiveAttempt(v, o, retry)

(***************************************************************************)
(* One detail fetch, step by step.                                         *)
(*   fv       the implementation                                           *)
(*   fpc      "get": a request is in flight, "sleep": in the backoff       *)
(*            sleep, "done": returned                                      *)
(*   fretry   the retry argument (the loop index of reqworker)             *)
(*   fhist    the outcomes of the requests issued so far                   *)
(*   fdelays  the arguments of the asyncio.sleep calls so far              *)
(*   fresult  the returned detail's fetch_status and fetch_error           *)
(***************************************************************************)

FetchInit ==
  /\ fv \in Variants
  /\ fpc = "get"
  /\ fretry = 0
  /\ fhist = <<>>
  /\ fdelays = <<>>
  /\ fresult = None

(* session.get completes with outcome o *)
FetchRespond(o) ==
  /\ fpc = "get"
  /\ LET h == Attempt(fv, o, fretry) IN
       /\ fhist' = Append(fhist, o)
       /\ IF h.act = "return"
          THEN /\ fpc' = "done"
               /\ fresult' = [status |-> h.status, error |-> h.error]
               /\ UNCHANGED <<fretry, fdelays>>
          ELSE IF h.sleeps
          THEN /\ fpc' = "sleep"
               /\ fdelays' = Append(fdelays, h.delay)
               /\ UNCHANGED <<fretry, fresult>>
          ELSE /\ fpc' = "get"
               /\ fretry' = fretry + 1
               /\ UNCHANGED <<fdelays, fresult>>
  /\ UNCHANGED <<fv, semVars, crawlVars, otherVars>>

(* asyncio.sleep returns; the retry issues the next request *)
FetchWake ==
  /\ fpc = "sleep"
  /\ fpc' = "get"
  /\ fretry' = fretry + 1
  /\ UNCHANGED <<fv, fhist, fdelays, fresult, semVars, crawlVars, otherVars>>

(***************************************************************************)
(* A batch of detail fetches gated by one semaphore (asyncio.gather over   *)
(* the tasks of a batch).                                                  *)
(*   sv       the implementation the batch runs                            *)
(*   sem      the semaphore's free slots                                   *)
(*   spc      per task: "acq" waiting in "async with semaphore", "get",    *)
(*            "sleep", "done"                                              *)
(*   sretry   per task: the retry argument                                 *)
(*   sheld    per task: the slots its call stack holds                     *)
(*   sstatus  per task: the fetch_status of its result                     *)
(***************************************************************************)

Tasks == 1..NumTasks

SemInit ==
  /\ sv \in Variants
  /\ sem = MAX_CONCURRENT
  /\ spc = [i \in Tasks |-> "acq"]
  /\ sretry = [i \in Tasks |-> 0]
  /\ sheld = [i \in Tasks |-> 0]
  /\ sstatus = [i \in Tasks |-> "pending"]

(* async with semaphore: entered *)
SemAcquire(i) ==
  /\ spc[i] = "acq"
  /\ sem > 0
  /\ sem' = sem - 1
  /\ sheld' = [sheld EXCEPT ![i] = @ + 1]
  /\ spc' = [spc EXCEPT ![i] = "get"]
  /\ UNCHANGED <<sv, sretry, sstatus, fetchVars, crawlVars, otherVars>>

(* a return that leaves the innermost "async with semaphore" only *)
ReleasedInnermost(held) == 1

(* the slots a return gives back: it unwinds the whole call stack and      *)
(* leaves every "async with semaphore" it is inside                        *)
Released(held) == held

(* session.get of task i completes with outcome o *)
SemRespond(i, o) ==
  /\ spc[i] = "get"
  /\ LET h == Attempt(sv, o, sretry[i]) IN
       IF h.act = "return"
       THEN /\ spc' = [spc EXCEPT ![i] = "done"]
            /\ sstatus' = [sstatus EXCEPT ![i] = h.status]
            /\ sem' = sem + Released(sheld[i])
            /\ sheld' = [sheld EXCEPT ![i] = 0]
            /\ UNCHANGED sretry
       ELSE IF h.sleeps
       THEN /\ spc' = [spc EXCEPT ![i] = "sleep"]
            /\ UNCHANGED <<sem, sheld, sretry, sstatus>>
       ELSE /\ sretry' = [sretry EXCEPT ![i] = @ + 1]
            /\ UNCHANGED <<sem, sheld, spc, sstatus>>
  /\ UNCHANGED <<sv, fetchVars, crawlVars, otherVars>>

(* asyncio.sleep of task i returns and the function calls itself: a        *)
(* variant that takes the semaphore inside the function waits for a slot   *)
(* again, the others issue the next request                                *)
SemWake(i) ==
  /\ spc[i] = "sleep"
  /\ spc' = [spc EXCEPT ![i] = IF NestedSemaphore(sv) THEN "acq" ELSE "get"]
  /\ sretry' = [sretry EXCEPT ![i] = @ + 1]
  /\ UNCHANGED <<sv, sem, sheld, sstatus, fetchVars, crawlVars, otherVars>>

(***************************************************************************)
(* The crawl.                                                              *)
(***************************************************************************)
Streets == 1..MaxStreet

Range(q) == {q[i] : i \in DOMAIN q}

Min(a, b) == IF a < b THEN a ELSE b

Max(a, b) == IF a > b THEN a ELSE b

SetMin(S) == CHOOSE x \in S : \A y \in S : x <= y

(* sorted(..., key=lambda x: x["code"]) *)
RECURSIVE SortedCodes(_)
SortedCodes(S) == IF S = {} THEN <<>> ELSE <<SetMin(S)>> \o SortedCodes(S \ {SetMin(S)})

(* The orders in which the elements of S can come. *)
Perms(S) ==
  {f \in [1..Cardinality(S) -> S] : \A i, j \in 1..Cardinality(S) : f[i] = f[j] => i = j}

RECURSIVE Flatten(_)
Flatten(qq) == IF qq = <<>> THEN <<>> ELSE Head(qq) \o Flatten(Tail(qq))

BuildingRecord(t, s, h) == [tik_number |-> t, street_code |-> s, house_number |-> h]

(* What the remote's address search returns while the house numbers of     *)
(* street s are walked: the street's own building file at house numbers 1  *)
(* and 2, and at house number 3 the file of the next street (a corner      *)
(* lot), which that street surfaces too.                                   *)
RecordsOf(s) ==
  <<BuildingRecord(s, s, 1), BuildingRecord(s, s, 2)>>
    \o (IF s + 1 <= MaxStreet THEN <<BuildingRecord(s + 1, s, 3)>> ELSE <<>>)

TikSet(recs) == {recs[i].tik_number : i \in DOMAIN recs}

MergeNoDedup(acc, recs) == acc \o recs

(* for r in recs: if r.tik_number not in seen_tiks: seen_tiks.add(...);    *)
(* acc.append(r)                                                           *)
RECURSIVE MergeDedup(_, _)
MergeDedup(acc, recs) ==
  IF recs = <<>> THEN acc
  ELSE MergeDedup(IF Head(recs).tik_number \in TikSet(acc) THEN acc
                  ELSE Append(acc, Head(recs)),
                  Tail(recs))

(* records of the streets of a list, street after street *)
RECURSIVE EnumerateStreets(_)
EnumerateStreets(streets) ==
  IF streets = <<>> THEN <<>>
  ELSE RecordsOf(Head(streets)) \o EnumerateStreets(Tail(streets))

(* a split whose last chunk, the one shorter than chunk_size, is left out *)
ChunksWithoutRemainder(list, size) ==
  [i \in 1..(Len(list) \div size) |->
     SubSeq(list, (i - 1) * size + 1, i * size)]

(* for i in range(0, len(list), size): list[i:i + size] *)
Chunks(list, size) ==
  [i \in 1..((Len(list) + size - 1) \div size) |->
     SubSeq(list, (i - 1) * size + 1, Min(i * size, Len(list)))]

(* chunk_size = max(1, len(items) // self.workers) *)
ChunkSize(n, w) == Max(1, n \div w)

(* The lists that pool.imap_unordered can deliver the chunks' results in.  *)
ChunkOrders(chunks) ==
  {[i \in DOMAIN chunks |-> chunks[p[i]]] : p \in Perms(DOMAIN chunks)}

(* a split that hands out the first range only *)
DiscoveryRangesFirstOnly(start, end, w) ==
  <<<<start, start + Max(1, (end - start + 1) \div w) - 1>>>>

(* _run_discovery: the code ranges handed to the workers *)
DiscoveryRanges(start, end, w) ==
  LET total_range == end - start + 1
      chunk_size == Max(1, total_range \div w)
      all == [i \in 1..w |->
                <<start + (i - 1) * chunk_size,
                  IF i - 1 < w - 1 THEN start + i * chunk_size - 1 ELSE end>>]
      Kept(r) == r[1] <= end
  IN SelectSeq(all, Kept)

(* The streets one event loop finds in a code range, in gather's order:    *)
(* _test_street returns a street for a code exactly when one of its probes *)
(* of the remote comes back with results.                                  *)
DiscoverRange(r) == SortedCodes(remoteStreets \cap (r[1]..r[2]))

(* _run_discovery: the lists of found codes it can return *)
RunDiscovery(w) ==
  IF w > 1
  THEN LET ranges == DiscoveryRanges(1, MaxStreet, w) IN
         {Flatten([i \in DOMAIN o |-> DiscoverRange(o[i])]) : o \in ChunkOrders(ranges)}
  ELSE {DiscoverRange(<<1, MaxStreet>>)}

NewCodesSwapped(fresh_codes, baseline_codes) == baseline_codes \ fresh_codes

(* new_codes = fresh_codes - baseline_codes *)
NewCodes(fresh_codes, baseline_codes) == fresh_codes \ baseline_codes

(* removed_codes = baseline_codes - fresh_codes *)
RemovedCodes(fresh_codes, baseline_codes) == baseline_codes \ fresh_codes

(* fetch_building_records past its cache test: the record lists it can     *)
(* return for a list of streets                                            *)
EnumerateRecords(streets, w) ==
  IF w > 1 /\ Len(streets) > 1
  THEN {MergeDedup(<<>>, EnumerateStreets(Flatten(o))) :
          o \in ChunkOrders(Chunks(streets, ChunkSize(Len(streets), w)))}
  ELSE {MergeDedup(<<>>, EnumerateStreets(streets))}

EmptyMap == [t \in {} |-> "pending"]

PutReplacing(m, st) == st

(* for result in results: completed[result.tik_number] = result *)
Put(m, st) == [t \in DOMAIN m \cup DOMAIN st |-> IF t \in DOMAIN st THEN st[t] ELSE m[t]]

NoStreetsFile == [exists |-> FALSE, streets |-> <<>>]
NoRecordsFile == [exists |-> FALSE, records |-> <<>>]
NoCheckpointFile == [exists |-> FALSE, readable |-> FALSE, keys |-> {}, details |-> EmptyMap]
NoDetailsFile == [exists |-> FALSE, details |-> EmptyMap]

(* _save_records_checkpoint: what it leaves in checkpoint.json *)
RecordsCheckpoint ==
  [exists |-> TRUE,
   readable |-> TRUE,
   keys |-> {"city", "checkpoint_at", "total_records", "records"},
   details |-> EmptyMap]

(* the single-process loop saves the checkpoint "if (i + 1) % 10 == 0" *)
SavesRecordsCheckpoint(streets, w) ==
  ~(w > 1 /\ Len(streets) > 1) /\ Len(streets) >= RECORDS_CHECKPOINT_EVERY

(* _save_records_checkpoint, as a record phase of an earlier run calls it *)
SaveRecordsCheckpoint ==
  /\ pc = "idle"
  /\ checkpoint_file' = RecordsCheckpoint
  /\ UNCHANGED <<remoteVars, streets_file, records_file, details_checkpoint_file,
                 details_file, pc, argVars, discoverVars, recordVars, detailVars,
                 historyVars>>
  /\ UNCHANGED <<fetchVars, semVars, otherVars>>

(* checkpoint.json after a process was killed inside                       *)
(* _save_records_checkpoint, between open(..., 'w') and the end of         *)
(* json.dump: json.load raises on it                                       *)
TornCheckpoint == [exists |-> TRUE, readable |-> FALSE, keys |-> {}, details |-> EmptyMap]

(* a record phase of an earlier run is killed while it saves its checkpoint *)
TornRecordsCheckpoint ==
  /\ pc = "idle"
  /\ checkpoint_file' = TornCheckpoint
  /\ UNCHANGED <<remoteVars, streets_file, records_file, details_checkpoint_file,
                 details_file, pc, argVars, discoverVars, recordVars, detailVars,
                 historyVars>>
  /\ UNCHANGED <<fetchVars, semVars, otherVars>>

(* fetch_building_details: "if resume and self.checkpoint_file.exists()",  *)
(* json.load inside "try: ... except Exception as e: logger.warning(...)", *)
(* "if 'details' in data"                                                  *)
LoadDetailsCheckpoint(r, file) ==
  IF r /\ file.exists /\ file.readable /\ "details" \in file.keys
  THEN file.details ELSE EmptyMap

(* The fetch_status values a finished detail fetch can return. *)
ResultStatuses == {Attempt("crawler", o, MAX_RETRIES).status : o \in Outcomes}

ClearedLocals ==
  /\ all_streets' = <<>>
  /\ new_streets' = <<>>
  /\ new_codes' = {}
  /\ removed_codes' = {}
  /\ existing_records' = <<>>
  /\ new_records' = <<>>
  /\ records' = <<>>
  /\ completed' = EmptyMap
  /\ remaining' = <<>>
  /\ batch_idx' = 0
  /\ pending' = {}
  /\ details' = EmptyMap
  /\ force' = FALSE
  /\ streets_only' = FALSE
  /\ skip_details' = FALSE
  /\ retry_errors' = FALSE
  /\ workers' = 1
  /\ resume' = TRUE
  /\ enumerated' = {}
  /\ requested' = {}
  /\ streets_before' = NoStreetsFile
  /\ records_before' = NoRecordsFile
  /\ details_before' = NoDetailsFile
  /\ probed' = {}
  /\ written' = {}

CrawlInit ==
  /\ remoteStreets \in SUBSET Streets
  /\ streets_file = NoStreetsFile
  /\ records_file = NoRecordsFile
  /\ checkpoint_file = NoCheckpointFile
  /\ details_checkpoint_file = NoDetailsFile
  /\ details_file = NoDetailsFile
  /\ pc = "idle"
  /\ force = FALSE
  /\ streets_only = FALSE
  /\ skip_details = FALSE
  /\ retry_errors = FALSE
  /\ workers = 1
  /\ resume = TRUE
  /\ all_streets = <<>>
  /\ new_streets = <<>>
  /\ new_codes = {}
  /\ removed_codes = {}
  /\ existing_records = <<>>
  /\ new_records = <<>>
  /\ records = <<>>
  /\ completed = EmptyMap
  /\ remaining = <<>>
  /\ batch_idx = 0
  /\ pending = {}
  /\ details = EmptyMap
  /\ enumerated = {}
  /\ requested = {}
  /\ streets_before = NoStreetsFile
  /\ records_before = NoRecordsFile
  /\ details_before = NoDetailsFile
  /\ probed = {}
  /\ written = {}
  /\ killedNew = {}

(* The remote starts or stops answering for street s between two runs. *)
RemoteChange(s) ==
  /\ pc = "idle"
  /\ remoteStreets' = IF s \in remoteStreets THEN remoteStreets \ {s}
                      ELSE remoteStreets \cup {s}
  /\ killedNew' = {}
  /\ UNCHANGED <<fileVars, pc, argVars, discoverVars, recordVars, detailVars,
                 enumerated, requested, streets_before, records_before, details_before,
                 probed, written>>
  /\ UNCHANGED <<fetchVars, semVars, otherVars>>

(* a run_full_crawl that goes to the discovery whatever retry_errors is *)
FirstStepIgnoringRetry(re) == "discover"

(* run_full_crawl: "if retry_errors:" *)
FirstStep(re) == IF re THEN "retry" ELSE "discover"

(* run_full_crawl(streets_only, skip_details, force) of a crawler built    *)
(* with the given number of workers                                        *)
StartRun(f, so, sd, w) ==
  /\ pc = "idle"
  /\ pc' = FirstStep(FALSE)
  /\ force' = f
  /\ streets_only' = so
  /\ skip_details' = sd
  /\ retry_errors' = FALSE
  /\ workers' = Max(1, w)
  /\ resume' = TRUE
  /\ enumerated' = {}
  /\ requested' = {}
  /\ probed' = {}
  /\ written' = {}
  /\ streets_before' = streets_file
  /\ records_before' = records_file
  /\ details_before' = details_file
  /\ UNCHANGED <<remoteVars, fileVars, discoverVars, recordVars, detailVars, killedNew>>
  /\ UNCHANGED <<fetchVars, semVars, otherVars>>

(* fetch_building_details(records, resume) of a crawler built with the     *)
(* given number of workers, called on its own                              *)
StartDetails(recs, r, w) ==
  /\ pc = "idle"
  /\ pc' = "details"
  /\ records' = recs
  /\ resume' = r
  /\ workers' = Max(1, w)
  /\ UNCHANGED <<remoteVars, fileVars, force, streets_only, skip_details, retry_errors,
                 discoverVars,
                 existing_records, new_records, detailVars, historyVars>>
  /\ UNCHANGED <<fetchVars, semVars, otherVars>>

(* a run_full_crawl that goes from the discovery to the detail phase *)
AfterDiscoverSkipsRecords == IF streets_only THEN "done" ELSE "details"

(* run_full_crawl: "if streets_only: ... return" *)
AfterDiscover == IF streets_only THEN "done" ELSE "records"

(* discover_streets(force), whose _run_discovery tests every code of       *)
(* street_range                                                            *)
DiscoverStreets ==
  /\ pc = "discover"
  /\ LET baseline_codes ==
           IF streets_file.exists /\ ~force THEN Range(streets_file.streets) ELSE {}
     IN \E fresh_streets \in RunDiscovery(workers) :
          LET fresh_codes == Range(fresh_streets)
              nc == NewCodes(fresh_codes, baseline_codes)
              IsNew(c) == c \in nc
          IN /\ new_codes' = nc
             /\ removed_codes' = RemovedCodes(fresh_codes, baseline_codes)
             /\ new_streets' = SelectSeq(fresh_streets, IsNew)
             /\ all_streets' = SortedCodes(fresh_codes)
             /\ streets_file' = [exists |-> TRUE, streets |-> SortedCodes(fresh_codes)]
  /\ probed' = Streets
  /\ written' = written \cup {"streets"}
  /\ pc' = AfterDiscover
  /\ UNCHANGED <<remoteVars, records_file, checkpoint_file, details_checkpoint_file,
                 details_file, argVars, recordVars, detailVars,
                 enumerated, requested, streets_before, records_before, details_before,
                 killedNew>>
  /\ UNCHANGED <<fetchVars, semVars, otherVars>>

ExistingRecordsForgotten(file) == <<>>

(* run_full_crawl: "Load existing records" *)
ExistingRecords(file) == IF file.exists THEN file.records ELSE <<>>

(* a run_full_crawl that goes on to the detail phase whatever skip_details is *)
AfterRecordsIgnoringFlag == "details"

(* run_full_crawl: "if skip_details: ... return" *)
AfterRecords == IF skip_details THEN "done" ELSE "details"

(* run_full_crawl, "if new_streets and not force": the existing records    *)
(* are loaded and fetch_building_records(new_streets, force=True) runs,    *)
(* which saves what it fetched to building_records.json                    *)
IncrementalFetch ==
  /\ pc = "records"
  /\ new_streets # <<>> /\ ~force
  /\ existing_records' = ExistingRecords(records_file)
  /\ \E fetched \in EnumerateRecords(new_streets, workers) :
       /\ new_records' = fetched
       /\ records_file' = [exists |-> TRUE, records |-> fetched]
  /\ checkpoint_file' = IF SavesRecordsCheckpoint(new_streets, workers)
                        THEN RecordsCheckpoint ELSE checkpoint_file
  /\ enumerated' = enumerated \cup Range(new_streets)
  /\ written' = written \cup {"records"}
                 \cup (IF SavesRecordsCheckpoint(new_streets, workers)
                       THEN {"checkpoint"} ELSE {})
  /\ pc' = "merge"
  /\ UNCHANGED <<remoteVars, streets_file, details_checkpoint_file, details_file,
                 argVars, discoverVars, records, detailVars,
                 requested, streets_before, records_before,
                 details_before, killedNew, probed>>
  /\ UNCHANGED <<fetchVars, semVars, otherVars>>

(* run_full_crawl: "Merge records (dedupe by tik_number)", "Save merged    *)
(* records"                                                                *)
MergeRecords ==
  /\ pc = "merge"
  /\ records' = MergeDedup(existing_records, new_records)
  /\ records_file' = [exists |-> TRUE, records |-> MergeDedup(existing_records, new_records)]
  /\ written' = written \cup {"records"}
  /\ pc' = AfterRecords
  /\ UNCHANGED <<remoteVars, streets_file, checkpoint_file, details_checkpoint_file,
                 details_file, argVars, discoverVars, existing_records, new_records,
                 detailVars,
                 enumerated, requested, streets_before, records_before,
                 details_before, killedNew, probed>>
  /\ UNCHANGED <<fetchVars, semVars, otherVars>>

(* run_full_crawl, "elif not new_streets and self.records_file.exists()    *)
(* and not force"                                                          *)
LoadCachedRecords ==
  /\ pc = "records"
  /\ ~(new_streets # <<>> /\ ~force)
  /\ new_streets = <<>> /\ records_file.exists /\ ~force
  /\ records' = records_file.records
  /\ pc' = AfterRecords
  /\ UNCHANGED <<remoteVars, fileVars, argVars, discoverVars, existing_records,
                 new_records, detailVars, historyVars>>
  /\ UNCHANGED <<fetchVars, semVars, otherVars>>

(* run_full_crawl, "else": fetch_building_records(all_streets, force) *)
FullFetch ==
  /\ pc = "records"
  /\ ~(new_streets # <<>> /\ ~force)
  /\ ~(new_streets = <<>> /\ records_file.exists /\ ~force)
  /\ IF records_file.exists /\ ~force
     THEN /\ records' = records_file.records
          /\ UNCHANGED <<records_file, checkpoint_file, enumerated, written>>
     ELSE /\ \E fetched \in EnumerateRecords(all_streets, workers) :
               /\ records' = fetched
               /\ records_file' = [exists |-> TRUE, records |-> fetched]
          /\ checkpoint_file' = IF SavesRecordsCheckpoint(all_streets, workers)
                                THEN RecordsCheckpoint ELSE checkpoint_file
          /\ enumerated' = enumerated \cup Range(all_streets)
          /\ written' = written \cup {"records"}
                         \cup (IF SavesRecordsCheckpoint(all_streets, workers)
                               THEN {"checkpoint"} ELSE {})
  /\ pc' = AfterRecords
  /\ UNCHANGED <<remoteVars, streets_file, details_checkpoint_file, details_file,
                 argVars, discoverVars, existing_records, new_records, detailVars,
                 requested, streets_before, records_before,
                 details_before, killedNew, probed>>
  /\ UNCHANGED <<fetchVars, semVars, otherVars>>

MultiProcess(items) == workers > 1 /\ Len(items) > 1

(* fetch_building_details(records) up to its fetch loops: the checkpoint   *)
(* is loaded and remaining computed; tik_numbers = list(set(...)) comes in *)
(* any order                                                               *)
DetailsStart ==
  /\ pc = "details"
  /\ LET tik_numbers == TikSet(records)
         loaded == LoadDetailsCheckpoint(resume, checkpoint_file)
         todo == tik_numbers \ DOMAIN loaded
     IN /\ completed' = loaded
        /\ IF todo = {}
           THEN /\ remaining' = <<>>
                /\ details' = loaded
                /\ pending' = {}
                /\ pc' = "export"
           ELSE /\ \E order \in Perms(todo) :
                     /\ remaining' = order
                     /\ pending' = IF MultiProcess(order)
                                   THEN DOMAIN Chunks(order, ChunkSize(Len(order), workers))
                                   ELSE {}
                     /\ pc' = IF MultiProcess(order) THEN "details_workers"
                              ELSE "details_batches"
                /\ UNCHANGED details
  /\ batch_idx' = 0
  /\ UNCHANGED <<remoteVars, fileVars, argVars, discoverVars, recordVars, historyVars>>
  /\ UNCHANGED <<fetchVars, semVars, otherVars>>

(* One pass of the single-process loop: a batch of SAVE_INTERVAL           *)
(* identifiers is fetched, merged into completed and the checkpoint saved  *)
DetailsBatch ==
  /\ pc = "details_batches"
  /\ LET batch == Chunks(remaining, SAVE_INTERVAL)[batch_idx \div SAVE_INTERVAL + 1] IN
       \E results \in [Range(batch) -> ResultStatuses] :
         /\ completed' = Put(completed, results)
         /\ requested' = requested \cup Range(batch)
         /\ details_checkpoint_file' = [exists |-> TRUE, details |-> Put(completed, results)]
  /\ written' = written \cup {"details_checkpoint"}
  /\ batch_idx' = batch_idx + SAVE_INTERVAL
  /\ pc' = IF batch_idx \div SAVE_INTERVAL + 1 = Len(Chunks(remaining, SAVE_INTERVAL))
           THEN "details_save" ELSE "details_batches"
  /\ UNCHANGED <<remoteVars, streets_file, records_file, checkpoint_file, details_file,
                 argVars, discoverVars, recordVars, remaining, pending, details,
                 enumerated, streets_before, records_before,
                 details_before, killedNew, probed>>
  /\ UNCHANGED <<fetchVars, semVars, otherVars>>

(* The multi-process loop: the pool delivers the result of chunk i, which  *)
(* is merged into completed                                                *)
DetailsChunkDone(i) ==
  /\ pc = "details_workers"
  /\ i \in pending
  /\ LET chunk == Chunks(remaining, ChunkSize(Len(remaining), workers))[i] IN
       \E results \in [Range(chunk) -> ResultStatuses] :
         /\ completed' = Put(completed, results)
         /\ requested' = requested \cup Range(chunk)
  /\ pending' = pending \ {i}
  /\ pc' = IF pending = {i} THEN "details_save" ELSE "details_workers"
  /\ UNCHANGED <<remoteVars, fileVars, argVars, discoverVars, recordVars, remaining,
                 batch_idx, details, enumerated, streets_before, records_before,
                 details_before, killedNew, probed, written>>
  /\ UNCHANGED <<fetchVars, semVars, otherVars>>

(* fetch_building_details: "Save final results" *)
DetailsSave ==
  /\ pc = "details_save"
  /\ details' = completed
  /\ details_file' = [exists |-> TRUE, details |-> completed]
  /\ written' = written \cup {"details"}
  /\ pc' = "export"
  /\ UNCHANGED <<remoteVars, streets_file, records_file, checkpoint_file,
                 details_checkpoint_file, argVars, discoverVars, recordVars,
                 completed, remaining, batch_idx, pending,
                 enumerated, requested, streets_before, records_before,
                 details_before, killedNew, probed>>
  /\ UNCHANGED <<fetchVars, semVars, otherVars>>

(* export_csv(details) and the closing log lines *)
Export ==
  /\ pc = "export"
  /\ pc' = "done"
  /\ UNCHANGED <<remoteVars, fileVars, argVars, discoverVars, recordVars, detailVars,
                 historyVars>>
  /\ UNCHANGED <<fetchVars, semVars, otherVars>>

(* run_full_crawl returns and the process exits *)
RunReturns ==
  /\ pc = "done"
  /\ pc' = "idle"
  /\ ClearedLocals
  /\ UNCHANGED <<remoteVars, fileVars, killedNew>>
  /\ UNCHANGED <<fetchVars, semVars, otherVars>>

(* The process is killed between two steps of a run: the files stay as     *)
(* they are, the locals are gone.                                          *)
Kill ==
  /\ pc \notin {"idle", "done"}
  /\ pc' = "idle"
  /\ ClearedLocals
  /\ killedNew' = IF pc \in {"records", "merge"} /\ ~force
                  THEN killedNew \cup new_codes ELSE killedNew
  /\ UNCHANGED <<remoteVars, fileVars>>
  /\ UNCHANGED <<fetchVars, semVars, otherVars>>

(***************************************************************************)
(* retry_failed_details, which run_full_crawl(retry_errors=True) calls.    *)
(* all_details is held in completed, failed_tiks in remaining.             *)
(***************************************************************************)
(* every identifier of the file *)
AllTiks(m) == DOMAIN m

(* [tik for tik, detail in all_details.items()                             *)
(*    if detail.fetch_status == 'error']                                   *)
FailedTiks(m) == {t \in DOMAIN m : m[t] = "error"}

(* run_full_crawl(retry_errors=True) of a crawler built with the given     *)
(* number of workers                                                       *)
StartRetry(w) ==
  /\ pc = "idle"
  /\ pc' = FirstStep(TRUE)
  /\ retry_errors' = TRUE
  /\ workers' = Max(1, w)
  /\ streets_before' = streets_file
  /\ records_before' = records_file
  /\ details_before' = details_file
  /\ UNCHANGED <<remoteVars, fileVars, force, streets_only, skip_details, resume,
                 discoverVars, recordVars, detailVars,
                 enumerated, requested, killedNew, probed, written>>
  /\ UNCHANGED <<fetchVars, semVars, otherVars>>

(* a retry without a details file that goes on to the save *)
AfterMissingFileSaves == "retry_save"

(* if not self.details_file.exists(): logger.error(...); return []         *)
(* and, in run_full_crawl, "if details:" skips the export                  *)
AfterMissingFile == "done"

(* retry_failed_details up to its fetch loops: without a details file it   *)
(* returns [], without a failed record it returns what the file holds;     *)
(* run_full_crawl exports a result that is not empty                       *)
RetryLoad ==
  /\ pc = "retry"
  /\ IF ~details_file.exists
     THEN /\ details' = EmptyMap
          /\ pc' = AfterMissingFile
          /\ UNCHANGED <<completed, remaining, pending>>
     ELSE LET all_details == details_file.details
              failed == FailedTiks(all_details)
          IN /\ completed' = all_details
             /\ IF failed = {}
                THEN /\ details' = all_details
                     /\ pc' = IF DOMAIN all_details = {} THEN "done" ELSE "export"
                     /\ UNCHANGED <<remaining, pending>>
                ELSE /\ \E order \in Perms(failed) :
                          /\ remaining' = order
                          /\ pending' = IF MultiProcess(order)
                                        THEN DOMAIN Chunks(order, ChunkSize(Len(order), workers))
                                        ELSE {}
                          /\ pc' = IF MultiProcess(order) THEN "retry_workers"
                                   ELSE "retry_batches"
                     /\ UNCHANGED details
  /\ batch_idx' = 0
  /\ UNCHANGED <<remoteVars, fileVars, argVars, discoverVars, recordVars, historyVars>>
  /\ UNCHANGED <<fetchVars, semVars, otherVars>>

(* One pass of the single-process retry loop: a batch of SAVE_INTERVAL     *)
(* failed identifiers is fetched and merged into all_details               *)
RetryBatch ==
  /\ pc = "retry_batches"
  /\ LET batch == Chunks(remaining, SAVE_INTERVAL)[batch_idx \div SAVE_INTERVAL + 1] IN
       \E results \in [Range(batch) -> ResultStatuses] :
         /\ completed' = Put(completed, results)
         /\ requested' = requested \cup Range(batch)
  /\ batch_idx' = batch_idx + SAVE_INTERVAL
  /\ pc' = IF batch_idx \div SAVE_INTERVAL + 1 = Len(Chunks(remaining, SAVE_INTERVAL))
           THEN "retry_save" ELSE "retry_batches"
  /\ UNCHANGED <<remoteVars, fileVars, argVars, discoverVars, recordVars, remaining,
                 pending, details, enumerated, streets_before, records_before,
                 details_before, killedNew, probed, written>>
  /\ UNCHANGED <<fetchVars, semVars, otherVars>>

(* The multi-process retry loop: the pool delivers the result of chunk i *)
RetryChunkDone(i) ==
  /\ pc = "retry_workers"
  /\ i \in pending
  /\ LET chunk == Chunks(remaining, ChunkSize(Len(remaining), workers))[i] IN
       \E results \in [Range(chunk) -> ResultStatuses] :
         /\ completed' = Put(completed, results)
         /\ requested' = requested \cup Range(chunk)
  /\ pending' = pending \ {i}
  /\ pc' = IF pending = {i} THEN "retry_save" ELSE "retry_workers"
  /\ UNCHANGED <<remoteVars, fileVars, argVars, discoverVars, recordVars, remaining,
                 batch_idx, details, enumerated, streets_before, records_before,
                 details_before, killedNew, probed, written>>
  /\ UNCHANGED <<fetchVars, semVars, otherVars>>

(* retry_failed_details: "Save updated results" *)
RetrySave ==
  /\ pc = "retry_save"
  /\ details' = completed
  /\ details_file' = [exists |-> TRUE, details |-> completed]
  /\ written' = written \cup {"details"}
  /\ pc' = "export"
  /\ UNCHANGED <<remoteVars, streets_file, records_file, checkpoint_file,
                 details_checkpoint_file, argVars, discoverVars, recordVars,
                 completed, remaining, batch_idx, pending,
                 enumerated, requested, streets_before, records_before,
                 details_before, killedNew, probed>>
  /\ UNCHANGED <<fetchVars, semVars, otherVars>>

(***************************************************************************)
(* The walk of a street's house numbers: "for house_num in range(1, 500)". *)
(* The four implementations of the walk:                                   *)
(*   crawler    ComplotCrawler._fetch_records_for_street                   *)
(*   worker     _async_fetch_records_for_street (complot_crawler.py)       *)
(*   fetcher    RecordFetcher.fetch_records_for_street                     *)
(*   recworker  async_fetch_records_for_street (record_fetcher.py)         *)
(***************************************************************************)
WalkVariants == {"crawler", "worker", "fetcher", "recworker"}

(* The answers to one address probe: a page with the no-results text, a    *)
(* page without the results table, a results table without rows, a results *)
(* table with rows, a status other than 200, an exception.                 *)
WalkOutcomes == {"nodata", "notable", "norows", "rows", "http", "exc"}

(* the implementations that keep consecutive_empty *)
CountsEmpty(v) == v = "recworker"

(* the answers on which consecutive_empty += 1 *)
EmptyProbe(o) == o \in {"nodata", "notable", "norows"}

(* if consecutive_empty >= max_consecutive_empty: break *)
Breaks(v, o, empty) ==
  CountsEmpty(v) /\ EmptyProbe(o) /\ empty + 1 >= max_consecutive_empty

(* consecutive_empty after the answer o *)
NextEmpty(v, o, empty) ==
  IF ~CountsEmpty(v) THEN 0
  ELSE IF EmptyProbe(o) THEN empty + 1
  ELSE IF o = "rows" THEN 0
  ELSE empty

WalkInit ==
  /\ wv \in WalkVariants
  /\ wpc = "get"
  /\ whouse = 1
  /\ wempty = 0
  /\ whist = <<>>

(* session.get of the probe of house number whouse completes with answer o *)
WalkRespond(o) ==
  /\ wpc = "get"
  /\ whist' = Append(whist, o)
  /\ wempty' = NextEmpty(wv, o, wempty)
  /\ IF Breaks(wv, o, wempty) \/ whouse = MaxHouse
     THEN wpc' = "done" /\ UNCHANGED whouse
     ELSE wpc' = "get" /\ whouse' = whouse + 1
  /\ UNCHANGED <<wv, fetchVars, semVars, crawlVars, probeVars, saveVars, unitVars>>

(***************************************************************************)
(* The test of a candidate street code: "for h in house_numbers".  The     *)
(* three implementations:                                                  *)
(*   crawler  ComplotCrawler._test_street                                  *)
(*   fetcher  StreetFetcher.test_street                                    *)
(*   worker   async_test_street / _async_test_street                       *)
(***************************************************************************)
ProbeVariants == {"crawler", "fetcher", "worker"}

TEST_HOUSE_NUMBERS == <<1, 2, 3, 5, 10, 20, 50>>

(* The answers to one probe: a page with the positive-result marker text   *)
(* from which a street name is extracted, a page with the marker text and  *)
(* no street name (no results table, no rows, no cell with the city name,  *)
(* a name of one character), a page without the marker text, a status      *)
(* other than 200, an exception.                                           *)
ProbeOutcomes == {"named", "marker", "nomarker", "http", "exc"}

(* return {"code": street_code, "name": street_name} *)
ReturnsStreet(v, o) == o = "named"

(* return None on the first probe that fails *)
GivesUpOnFailure(v, o, idx) ==
  ~ReturnsStreet(v, o) /\ (idx = Len(TEST_HOUSE_NUMBERS) \/ o \in {"http", "exc"})

(* the loop is exhausted: return None *)
GivesUp(v, o, idx) == ~ReturnsStreet(v, o) /\ idx = Len(TEST_HOUSE_NUMBERS)

ProbeInit ==
  /\ pv \in ProbeVariants
  /\ pidx = 1
  /\ phist = <<>>
  /\ phouses = <<>>
  /\ presult = "pending"

(* session.get of the probe of house number TEST_HOUSE_NUMBERS[pidx]       *)
(* completes with answer o                                                 *)
ProbeRespond(o) ==
  /\ presult = "pending"
  /\ phist' = Append(phist, o)
  /\ phouses' = Append(phouses, TEST_HOUSE_NUMBERS[pidx])
  /\ IF ReturnsStreet(pv, o) THEN presult' = "street" /\ UNCHANGED pidx
     ELSE IF GivesUp(pv, o, pidx) THEN presult' = "none" /\ UNCHANGED pidx
     ELSE presult' = "pending" /\ pidx' = pidx + 1
  /\ UNCHANGED <<pv, fetchVars, semVars, crawlVars, walkVars, saveVars, unitVars>>

(***************************************************************************)
(* A save: "with open(path, 'w', encoding='utf-8') as f: json.dump(...)".  *)
(* open truncates the file, json.dump writes the text piece after piece,   *)
(* leaving the with statement closes the file.                             *)
(***************************************************************************)
NoJsonFile == [exists |-> FALSE, text |-> <<>>]

(* the texts json.dump can have to write: never the empty text *)
JsonTexts == UNION {[1..n -> 1..NumPieces] : n \in 1..MaxTextLen}

SaveInit ==
  /\ jfile = NoJsonFile
  /\ jbefore = NoJsonFile
  /\ jdata = <<>>
  /\ jpc = "idle"

(* open(path, 'w') *)
SaveOpen(data) ==
  /\ jpc = "idle"
  /\ jbefore' = jfile
  /\ jdata' = data
  /\ jfile' = [exists |-> TRUE, text |-> <<>>]
  /\ jpc' = "writing"
  /\ UNCHANGED <<fetchVars, semVars, crawlVars, walkVars, probeVars, unitVars>>

(* json.dump: the next piece of the text reaches the file *)
SaveWrite ==
  /\ jpc = "writing"
  /\ Len(jfile.text) < Len(jdata)
  /\ jfile' = [jfile EXCEPT !.text = Append(@, jdata[Len(jfile.text) + 1])]
  /\ UNCHANGED <<jbefore, jdata, jpc>>
  /\ UNCHANGED <<fetchVars, semVars, crawlVars, walkVars, probeVars, unitVars>>

(* the with statement is left *)
SaveClose ==
  /\ jpc = "writing"
  /\ jfile.text = jdata
  /\ jpc' = "idle"
  /\ UNCHANGED <<jfile, jbefore, jdata>>
  /\ UNCHANGED <<fetchVars, semVars, crawlVars, walkVars, probeVars, unitVars>>

(* the process is killed during the save *)
SaveKill ==
  /\ jpc = "writing"
  /\ jpc' = "killed"
  /\ UNCHANGED <<jfile, jbefore, jdata>>
  /\ UNCHANGED <<fetchVars, semVars, crawlVars, walkVars, probeVars, unitVars>>

(* a later run starts *)
SaveRestart ==
  /\ jpc = "killed"
  /\ jpc' = "idle"
  /\ UNCHANGED <<jfile, jbefore, jdata>>
  /\ UNCHANGED <<fetchVars, semVars, crawlVars, walkVars, probeVars, unitVars>>

(***************************************************************************)
(* fetch_building_details(records) with its credential test.               *)
(***************************************************************************)
ApiTypes == {"tikim", "bakashot"}

(* the BuildingRecord fields the detail phase reads *)
InputRecords ==
  [tik_number : 1..MaxTik, address : {"", "addr"}, gush : {"", "gush"}]

RecordInputs == UNION {[1..n -> InputRecords] : n \in 0..MaxRecs}

(* a detail built from a record, its address left out *)
DetailFromRecordNoAddress(r) ==
  [tik_number |-> r.tik_number,
   address |-> "",
   addresses |-> <<>>,
   gush_helka |-> IF r.gush # "" THEN <<r.gush>> ELSE <<>>,
   fetch_status |-> "from_records"]

(* BuildingDetail(tik_number=r.tik_number, address=r.address,              *)
(*   addresses=[r.address] if r.address else [],                           *)
(*   gush_helka=[{...}] if r.gush else [], fetch_status="from_records")    *)
DetailFromRecord(r) ==
  [tik_number |-> r.tik_number,
   address |-> r.address,
   addresses |-> IF r.address # "" THEN <<r.address>> ELSE <<>>,
   gush_helka |-> IF r.gush # "" THEN <<r.gush>> ELSE <<>>,
   fetch_status |-> "from_records"]

(* a detail that a fetch returned with the given status *)
FetchedDetail(t, status) ==
  [tik_number |-> t,
   address |-> "",
   addresses |-> <<>>,
   gush_helka |-> <<>>,
   fetch_status |-> status]

(* if self.config.api_type == "bakashot": if not self.israeli_id: *)
NoCredential(api, id) == api = "bakashot" /\ ~id

SynthInit ==
  /\ yapi \in ApiTypes
  /\ yid \in BOOLEAN
  /\ yrecs \in RecordInputs
  /\ ypc = "call"
  /\ ydetails = <<>>
  /\ yrequests = {}

(* fetch_building_details of a bakashot target without israeli_id: the     *)
(* details are built from the records and returned                         *)
DetailsFromRecords ==
  /\ ypc = "call"
  /\ NoCredential(yapi, yid)
  /\ ydetails' = [i \in DOMAIN yrecs |-> DetailFromRecord(yrecs[i])]
  /\ yrequests' = {}
  /\ ypc' = "returned"
  /\ UNCHANGED <<yapi, yid, yrecs>>
  /\ UNCHANGED <<fetchVars, semVars, crawlVars, walkVars, probeVars, saveVars,
                 endVars, chunkVars>>

(* fetch_building_details otherwise (a tikim target, or a bakashot target  *)
(* with israeli_id): every identifier of the records is requested and the  *)
(* list of the fetched details returned                                    *)
DetailsFetched ==
  /\ ypc = "call"
  /\ ~NoCredential(yapi, yid)
  /\ \E order \in Perms(TikSet(yrecs)) :
       \E results \in [TikSet(yrecs) -> ResultStatuses] :
         ydetails' = [i \in DOMAIN order |-> FetchedDetail(order[i], results[order[i]])]
  /\ yrequests' = TikSet(yrecs)
  /\ ypc' = "returned"
  /\ UNCHANGED <<yapi, yid, yrecs>>
  /\ UNCHANGED <<fetchVars, semVars, crawlVars, walkVars, probeVars, saveVars,
                 endVars, chunkVars>>

(***************************************************************************)
(* A full run, run_full_crawl(), against a remote that answers every       *)
(* request and knows one street, STREET_CODE, with a building file at each *)
(* house number of ehouses.                                                *)
(***************************************************************************)
STREET_CODE == 389

(* the identifier of the building file at a house number of a street *)
TikOf(s, h) == s * 1000000 + h * 100

(* _test_street: a probe of a house number of the list comes back with     *)
(* results                                                                 *)
TestStreet(houses) == \E i \in DOMAIN TEST_HOUSE_NUMBERS : TEST_HOUSE_NUMBERS[i] \in houses

EndInit ==
  /\ ehouses \in SUBSET (1..MaxHouse)
  /\ epc = "discover"
  /\ estreets = {}
  /\ erecords = <<>>
  /\ edetails = EmptyMap

(* discover_streets *)
EndDiscover ==
  /\ epc = "discover"
  /\ estreets' = IF TestStreet(ehouses) THEN {STREET_CODE} ELSE {}
  /\ epc' = "records"
  /\ UNCHANGED <<ehouses, erecords, edetails>>
  /\ UNCHANGED <<fetchVars, semVars, crawlVars, walkVars, probeVars, saveVars,
                 synthVars, chunkVars>>

(* fetch_building_records: the house numbers of each discovered street are *)
(* walked in ascending order                                               *)
EndRecords ==
  /\ epc = "records"
  /\ erecords' = IF STREET_CODE \in estreets
                 THEN [i \in 1..Cardinality(ehouses) |->
                         BuildingRecord(TikOf(STREET_CODE, SortedCodes(ehouses)[i]),
                                        STREET_CODE, SortedCodes(ehouses)[i])]
                 ELSE <<>>
  /\ epc' = "details"
  /\ UNCHANGED <<ehouses, estreets, edetails>>
  /\ UNCHANGED <<fetchVars, semVars, crawlVars, walkVars, probeVars, saveVars,
                 synthVars, chunkVars>>

(* fetch_building_details: every request is answered with the page of the  *)
(* building file                                                           *)
EndDetails ==
  /\ epc = "details"
  /\ edetails' = [t \in TikSet(erecords) |-> Attempt("crawler", "ok", 0).status]
  /\ epc' = "done"
  /\ UNCHANGED <<ehouses, estreets, erecords>>
  /\ UNCHANGED <<fetchVars, semVars, crawlVars, walkVars, probeVars, saveVars,
                 synthVars, chunkVars>>

(***************************************************************************)
(* The split of a work list for the pool: fetch_building_records and       *)
(* fetch_building_details with self.workers > 1.                           *)
(***************************************************************************)
(* the work lists: streets of distinct codes, list(set(tik_numbers)) *)
WorkLists ==
  UNION {{q \in [1..n -> 1..MaxItems] : \A i, j \in 1..n : q[i] = q[j] => i = j} :
           n \in 0..MaxItems}

(* the scan ranges: start, end = self.config.street_range *)
ScanRanges == {<<start, start + n - 1>> : start \in 1..2, n \in 1..MaxItems}

ChunkInit ==
  /\ cwork \in WorkLists
  /\ cw \in 2..MaxPool
  /\ cpc = "list"
  /\ cchunks = <<>>
  /\ crange \in ScanRanges
  /\ cranges = <<>>

(* chunk_size = max(1, len(items) // self.workers) and the loop that cuts  *)
(* the chunks                                                              *)
Partition ==
  /\ cpc = "list"
  /\ cchunks' = Chunks(cwork, ChunkSize(Len(cwork), cw))
  /\ cpc' = "split"
  /\ UNCHANGED <<cwork, cw, crange, cranges>>
  /\ UNCHANGED <<fetchVars, semVars, crawlVars, walkVars, probeVars, saveVars,
                 synthVars, endVars>>

(* _run_discovery with self.workers > 1: "Create ranges for each worker" *)
SplitRange ==
  /\ cranges = <<>>
  /\ cranges' = DiscoveryRanges(crange[1], crange[2], cw)
  /\ UNCHANGED <<cwork, cw, cpc, cchunks, crange>>
  /\ UNCHANGED <<fetchVars, semVars, crawlVars, walkVars, probeVars, saveVars,
                 synthVars, endVars>>

vars == <<fetchVars, semVars, crawlVars, otherVars>>

(***************************************************************************)
(* Specifications.                                                         *)
(***************************************************************************)
(* the machines a specification leaves alone *)
WalkIdle == WalkInit /\ wv = "crawler"

ProbeIdle == ProbeInit /\ pv = "crawler"

CrawlIdle == CrawlInit /\ remoteStreets = {}

SynthIdle == yapi = "tikim" /\ yid = FALSE /\ yrecs = <<>> /\ SynthInit

EndIdle == ehouses = {} /\ EndInit

ChunkIdle == cwork = <<>> /\ cw = 2 /\ crange = <<1, 1>> /\ ChunkInit

UnitsIdle == SynthIdle /\ EndIdle /\ ChunkIdle

WorkIdle ==
  /\ FetchInit /\ fv = "crawler" /\ SemInit /\ sv = "crawler" /\ CrawlIdle
  /\ WalkIdle /\ ProbeIdle /\ SaveInit

InitFetch ==
  /\ FetchInit /\ SemInit /\ sv = "crawler" /\ CrawlIdle
  /\ WalkIdle /\ ProbeIdle /\ SaveInit /\ UnitsIdle

NextFetch ==
  \/ \E o \in Outcomes : FetchRespond(o)
  \/ FetchWake

SpecFetch == InitFetch /\ [][NextFetch]_vars

InitSem ==
  /\ SemInit /\ FetchInit /\ fv = "crawler" /\ CrawlIdle
  /\ WalkIdle /\ ProbeIdle /\ SaveInit /\ UnitsIdle

NextSem ==
  \/ \E i \in Tasks : SemAcquire(i)
  \/ \E i \in Tasks, o \in Outcomes : SemRespond(i, o)
  \/ \E i \in Tasks : SemWake(i)

SpecSem == InitSem /\ [][NextSem]_vars

InitCrawl ==
  /\ CrawlInit /\ FetchInit /\ fv = "crawler" /\ SemInit /\ sv = "crawler"
  /\ WalkIdle /\ ProbeIdle /\ SaveInit /\ UnitsIdle

NextCrawl ==
  \/ \E s \in Streets : RemoteChange(s)
  \/ \E f, so \in BOOLEAN, w \in 1..MaxWorkers : StartRun(f, so, TRUE, w)
  \/ DiscoverStreets
  \/ IncrementalFetch
  \/ MergeRecords
  \/ LoadCachedRecords
  \/ FullFetch
  \/ RunReturns
  \/ Kill

(* The street discovery and record phases of run_full_crawl, run after run *)
(* over the same output directory against a remote that changes between    *)
(* runs.                                                                   *)
SpecCrawl == InitCrawl /\ [][NextCrawl]_vars

(* The record lists handed to the detail phase: one record per identifier. *)
RecordLists ==
  {[i \in 1..Cardinality(T) |-> BuildingRecord(SortedCodes(T)[i], 1, 1)] :
     T \in SUBSET (1..MaxTik) \ {{}}}

InitDetails ==
  /\ CrawlInit /\ remoteStreets = {}
  /\ FetchInit /\ fv = "crawler"
  /\ SemInit /\ sv = "crawler"
  /\ WalkIdle /\ ProbeIdle /\ SaveInit /\ UnitsIdle

NextDetails ==
  \/ SaveRecordsCheckpoint
  \/ TornRecordsCheckpoint
  \/ \E recs \in RecordLists, r \in BOOLEAN, w \in 1..MaxWorkers : StartDetails(recs, r, w)
  \/ DetailsStart
  \/ DetailsBatch
  \/ \E i \in 1..MaxTik : DetailsChunkDone(i)
  \/ DetailsSave
  \/ Export
  \/ RunReturns
  \/ Kill

(* The detail phase, fetch_building_details, call after call over the same *)
(* output directory.                                                       *)
SpecDetails == InitDetails /\ [][NextDetails]_vars

(* The arguments (force, streets_only, skip_details, workers) of the runs   *)
(* that go through all the phases: a forced run is a single-process one;   *)
(* forced multi-process runs are those of SpecCrawl.                       *)
RunArgs ==
  {a \in BOOLEAN \X BOOLEAN \X BOOLEAN \X (1..MaxWorkers) : a[1] => a[4] = 1}

NextRun ==
  \/ \E a \in RunArgs : StartRun(a[1], a[2], a[3], a[4])
  \/ DiscoverStreets
  \/ IncrementalFetch
  \/ MergeRecords
  \/ LoadCachedRecords
  \/ FullFetch
  \/ DetailsStart
  \/ DetailsBatch
  \/ \E i \in 1..MaxTik : DetailsChunkDone(i)
  \/ DetailsSave
  \/ \E w \in 1..MaxWorkers : StartRetry(w)
  \/ RetryLoad
  \/ RetryBatch
  \/ \E i \in 1..MaxTik : RetryChunkDone(i)
  \/ RetrySave
  \/ Export
  \/ RunReturns
  \/ Kill

(* run_full_crawl in all its modes, run after run over the same output     *)
(* directory, runs that are killed included, against a remote that stays   *)
(* as it is.                                                               *)
SpecRun == InitCrawl /\ [][NextRun]_vars

NextRetry ==
  \/ \E recs \in RecordLists, w \in 1..MaxWorkers : StartDetails(recs, TRUE, w)
  \/ DetailsStart
  \/ DetailsBatch
  \/ \E i \in 1..MaxTik : DetailsChunkDone(i)
  \/ DetailsSave
  \/ \E w \in 1..MaxWorkers : StartRetry(w)
  \/ RetryLoad
  \/ RetryBatch
  \/ \E i \in 1..MaxTik : RetryChunkDone(i)
  \/ RetrySave
  \/ Export
  \/ RunReturns
  \/ Kill

(* Detail phases and retry-failed-only runs, one after the other over the  *)
(* same output directory.                                                  *)
SpecRetry == InitDetails /\ [][NextRetry]_vars

InitWalk ==
  /\ WalkInit
  /\ FetchInit /\ fv = "crawler" /\ SemInit /\ sv = "crawler" /\ CrawlIdle
  /\ ProbeIdle /\ SaveInit /\ UnitsIdle

NextWalk == \E o \in WalkOutcomes : WalkRespond(o)

(* The walk of one street, in each implementation. *)
SpecWalk == InitWalk /\ [][NextWalk]_vars

InitProbe ==
  /\ ProbeInit
  /\ FetchInit /\ fv = "crawler" /\ SemInit /\ sv = "crawler" /\ CrawlIdle
  /\ WalkIdle /\ SaveInit /\ UnitsIdle

NextProbe == \E o \in ProbeOutcomes : ProbeRespond(o)

(* The test of one candidate street code, in each implementation. *)
SpecProbe == InitProbe /\ [][NextProbe]_vars

InitSynth == SynthInit /\ WorkIdle /\ EndIdle /\ ChunkIdle

NextSynth ==
  \/ DetailsFromRecords
  \/ DetailsFetched

(* fetch_building_details on every target kind, with and without           *)
(* credential.                                                             *)
SpecSynth == InitSynth /\ [][NextSynth]_vars

InitEnd == EndInit /\ WorkIdle /\ SynthIdle /\ ChunkIdle

NextEnd ==
  \/ EndDiscover
  \/ EndRecords
  \/ EndDetails

(* A full run against a reliable remote. *)
SpecEnd == InitEnd /\ [][NextEnd]_vars

InitChunk == ChunkInit /\ WorkIdle /\ SynthIdle /\ EndIdle

NextChunk ==
  \/ Partition
  \/ SplitRange

(* The split of every work list and of every scan range for every pool    *)
(* size.                                                                   *)
SpecChunk == InitChunk /\ [][NextChunk]_vars

InitSave ==
  /\ SaveInit
  /\ FetchInit /\ fv = "crawler" /\ SemInit /\ sv = "crawler" /\ CrawlIdle
  /\ WalkIdle /\ ProbeIdle /\ UnitsIdle

NextSave ==
  \/ \E data \in JsonTexts : SaveOpen(data)
  \/ SaveWrite
  \/ SaveClose
  \/ SaveKill
  \/ SaveRestart

(* One file of the output directory under save after save, the process     *)
(* being killed at any instant.                                            *)
SpecSave == InitSave /\ [][NextSave]_vars

(***************************************************************************)
(* Claims.                                                                 *)
(***************************************************************************)
AllTimeouts(h) == \A i \in DOMAIN h : h[i] = "timeout"

RECURSIVE SumSeq(_)
SumSeq(q) == IF q = <<>> THEN 0 ELSE Head(q) + SumSeq(Tail(q))

(* C2: a batch gated by the semaphore never hangs: there is no reachable   *)
(* state in which some operation is unfinished, no slot is free and every  *)
(* unfinished operation waits on the semaphore.                            *)
C2_NoSemaphoreHang ==
  LET unfinished == {i \in Tasks : spc[i] # "done"} IN
    ~(/\ unfinished # {}
      /\ sem = 0
      /\ \A i \in unfinished : spc[i] = "acq")

(* C7: in the building-detail fetch, MAX_RETRIES-1 timeouts followed by a  *)
(* good response return success; under timeouts only, the delay before     *)
(* retry k is RETRY_DELAY*2^k, at most MAX_RETRIES+1 requests are issued,  *)
(* and the fetch returns the Timeout error after a total delay of the sum  *)
(* of RETRY_DELAY*2^k for k in [0, MAX_RETRIES).                           *)
C7_RetryBackoff ==
  fv \in BuildingVariants =>
    /\ ( /\ fpc = "done"
         /\ Len(fhist) = MAX_RETRIES
         /\ AllTimeouts(SubSeq(fhist, 1, MAX_RETRIES - 1))
         /\ fhist[MAX_RETRIES] = "ok" ) => fresult.status = "success"
    /\ AllTimeouts(fhist) =>
         /\ Len(fhist) <= MAX_RETRIES + 1
         /\ Len(fdelays) <= MAX_RETRIES
         /\ \A k \in DOMAIN fdelays : fdelays[k] = RETRY_DELAY * Pow2(k - 1)
         /\ Len(fhist) = MAX_RETRIES + 1 => fpc = "done"
         /\ fpc = "done" =>
              /\ fresult = [status |-> "error", error |-> "Timeout"]
              /\ Len(fhist) = MAX_RETRIES + 1
              /\ Len(fdelays) = MAX_RETRIES
              /\ SumSeq(fdelays) = RETRY_DELAY * (Pow2(MAX_RETRIES) - 1)

C7_Witness ==
  /\ fv = "crawler"
  /\ fpc = "done"
  /\ Len(fhist) = MAX_RETRIES + 1
  /\ AllTimeouts(fhist)
  /\ fresult.error = "Timeout"

(* C8: in every detail fetch a non-200 status is terminal: it is the last  *)
(* request of the fetch, which has returned an error result.               *)
C8_Non200Terminal ==
  \A i \in DOMAIN fhist :
    fhist[i] = "http" =>
      /\ i = Len(fhist)
      /\ fpc = "done"
      /\ fresult.status = "error"

(* C9: in the building-detail fetch an exception other than a timeout is   *)
(* retried: it ends the fetch only at attempt MAX_RETRIES+1.               *)
C9_ExceptionRetried ==
  fv \in BuildingVariants =>
    \A i \in DOMAIN fhist :
      (fhist[i] = "exc" /\ i <= MAX_RETRIES) => ~(fpc = "done" /\ Len(fhist) = i)

NoDuplicateTik(recs) ==
  \A i, j \in DOMAIN recs : recs[i].tik_number = recs[j].tik_number => i = j

IsPrefix(p, q) == Len(p) <= Len(q) /\ SubSeq(q, 1, Len(p)) = p

(* C1: a detail phase started with resume enabled requests none of the     *)
(* identifiers whose results an earlier run persisted in the details       *)
(* checkpoint: what it sets out to fetch is requested minus K.             *)
C1_ResumeSkipsCheckpointed ==
  [][(pc = "details" /\ resume) =>
       Range(remaining') \cap DOMAIN details_checkpoint_file.details = {}]_vars

(* C3: when a non-forced run was killed after discovery had persisted new  *)
(* codes and before their records were merged, a later non-forced run      *)
(* against the same remote ends with the records of every such code in    *)
(* the record snapshot.                                                    *)
C3_KilledNewCodesEnumerated ==
  (pc = "done" /\ ~force /\ ~streets_only) =>
    \A c \in killedNew : TikSet(RecordsOf(c)) \subseteq TikSet(records_file.records)

RecordsPhaseDone == pc \notin {"idle", "discover", "records", "merge"} /\ ~streets_only

IncrementalMerge ==
  /\ enumerated = new_codes
  /\ records_file.exists = (records_before.exists \/ new_codes # {})
  /\ TikSet(records_file.records) =
       TikSet(records_before.records) \cup UNION {TikSet(RecordsOf(c)) : c \in new_codes}
  /\ IsPrefix(records_before.records, records_file.records)
  /\ NoDuplicateTik(records_file.records)
  /\ new_codes = {} => (enumerated = {} /\ records_file = records_before)

C5_StreetDiff ==
  (pc \in {"records", "merge", "done"} /\ ~force) =>
    LET B == Range(streets_before.streets)
        F == remoteStreets \cap Streets
    IN /\ new_codes = F \ B
       /\ removed_codes = B \ F
       /\ streets_file.exists
       /\ Range(streets_file.streets) = F

C5_Witness ==
  /\ pc = "records" /\ ~force
  /\ streets_before.exists
  /\ new_codes # {}
  /\ removed_codes # {}

(* C6: the record snapshot never holds two records with one tik number.    *)
C6_OneRecordPerTik == records_file.exists => NoDuplicateTik(records_file.records)

C6_Witness ==
  /\ pc = "done"
  /\ enumerated = Streets
  /\ workers > 1
  /\ records_file.exists
  /\ TikSet(records_file.records) = Streets

(* C10: the result of a finished detail phase has exactly one entry,       *)
(* success or error, for every identifier it was handed and no other, and  *)
(* a request was issued for every identifier that had to be fetched.       *)
C10_NoItemLost ==
  pc = "export" =>
    /\ DOMAIN details = TikSet(records)
    /\ \A t \in TikSet(records) : details[t] \in {"success", "error"}
    /\ Range(remaining) \subseteq requested

C10_Witness ==
  /\ pc = "export"
  /\ workers > 1
  /\ Cardinality(TikSet(records)) = MaxTik
  /\ \E t \in DOMAIN details : details[t] = "error"
  /\ \E t \in DOMAIN details : details[t] = "success"

ErrorKeys(m) == {t \in DOMAIN m : m[t] = "error"}

(* C11: a detail phase started with resume enabled does not set out to     *)
(* fetch an identifier whose result in the persisted details checkpoint    *)
(* has status error.                                                       *)
C11_ResumeSkipsErrors ==
  [][(pc = "details" /\ resume) =>
       Range(remaining') \cap ErrorKeys(details_checkpoint_file.details) = {}]_vars

(* the identifiers of completed whose result the persisted checkpoint      *)
(* does not hold                                                           *)
NotPersisted ==
  {t \in DOMAIN completed :
     \/ t \notin DOMAIN details_checkpoint_file.details
     \/ details_checkpoint_file.details[t] # completed[t]}

(* C16: at every batch boundary of the detail phase, in single-process and *)
(* in multi-process mode, at most SAVE_INTERVAL completed identifiers are  *)
(* missing from the persisted checkpoint, and when the last batch is done  *)
(* the whole completed map is persisted.                                   *)
C16_CheckpointCadence ==
  /\ pc \in {"details_batches", "details_workers", "details_save"}
       => Cardinality(NotPersisted) <= SAVE_INTERVAL
  /\ pc = "details_save" => NotPersisted = {}

(* C17: while resumed detail phases run and save, a key of the persisted   *)
(* details checkpoint is a key of the checkpoint after every step.         *)
C17_CheckpointAppendOnly ==
  [][resume => DOMAIN details_checkpoint_file.details
                 \subseteq DOMAIN details_checkpoint_file'.details]_vars

(* C12: a retry-failed-only run requests only identifiers whose persisted  *)
(* detail has status error and, until it saves, leaves the details         *)
(* snapshot as it found it; when it has saved, it has requested exactly    *)
(* those identifiers, every detail whose status was not error is as it     *)
(* was, and the snapshot has the keys it had.                              *)
C12_RetryOnlyFailed ==
  retry_errors =>
    LET before == details_before.details IN
      /\ requested \subseteq ErrorKeys(before)
      /\ pc \in {"retry", "retry_batches", "retry_workers", "retry_save"}
           => details_file = details_before
      /\ pc = "export" =>
           /\ requested = ErrorKeys(before)
           /\ DOMAIN details_file.details = DOMAIN before
           /\ \A t \in DOMAIN before :
                before[t] # "error" => details_file.details[t] = before[t]
           /\ details = details_file.details

C12_Witness ==
  /\ retry_errors /\ pc = "export"
  /\ ErrorKeys(details_before.details) # {}
  /\ \E t \in DOMAIN details_before.details : details_before.details[t] = "success"
  /\ \E t \in requested : details_file.details[t] = "success"

(* C13: in the walk of a street's house numbers, once                      *)
(* max_consecutive_empty consecutive probes have each yielded neither a    *)
(* results table nor a record, no probe of a higher house number is        *)
(* issued: the run of empty probes ends the history of the walk.           *)
C13_EarlyExit ==
  \A i \in max_consecutive_empty..Len(whist) :
    (\A k \in (i - max_consecutive_empty + 1)..i : whist[k] \in {"nodata", "notable"})
      => Len(whist) = i /\ wpc = "done"

(* C14: after a probe that ends in a status other than 200 or in an        *)
(* exception, the test of a street code goes on to the next house number   *)
(* of the list, and the code is reported as invalid only when every house  *)
(* number of the list has been probed without a positive result.           *)
C14_InconclusiveTriesNext ==
  /\ \A i \in 1..Len(phist) :
       (phist[i] \in {"http", "exc"} /\ i < Len(TEST_HOUSE_NUMBERS))
         => IF Len(phist) = i THEN presult = "pending" /\ pidx = i + 1
            ELSE phouses[i + 1] = TEST_HOUSE_NUMBERS[i + 1]
  /\ presult = "none" =>
       /\ phouses = TEST_HOUSE_NUMBERS
       /\ \A i \in 1..Len(phist) : phist[i] # "named"

C14_Witness ==
  /\ presult = "none"
  /\ \E i, k \in 1..Len(phist) : phist[i] = "http" /\ phist[k] = "exc"

(* C15: the test of a street code probes the house numbers 1, 2, 3, 5, 10, *)
(* 20, 50 in this order and stops at the first probe whose response holds  *)
(* the positive-result marker text: that probe is the last one and the     *)
(* code is reported as a street.                                           *)
C15_StopsAtMarker ==
  /\ Len(phouses) <= Len(TEST_HOUSE_NUMBERS)
  /\ \A i \in 1..Len(phouses) : phouses[i] = TEST_HOUSE_NUMBERS[i]
  /\ \A i \in 1..Len(phist) :
       phist[i] \in {"named", "marker"} => i = Len(phist) /\ presult = "street"

(* C18: a save that the process is killed in leaves the file with its      *)
(* complete previous content or its complete new content.                  *)
C18_AtomicSave ==
  jpc = "killed" => jfile \in {jbefore, [exists |-> TRUE, text |-> jdata]}

(* C19: in a resumed detail phase that finds a checkpoint file it cannot   *)
(* parse, no detail request is issued and neither the checkpoint files nor *)
(* the details snapshot are written.                                       *)
C19_UnreadableCheckpointFatal ==
  [][(/\ pc \in {"details", "details_batches", "details_workers", "details_save"}
      /\ resume /\ checkpoint_file.exists /\ ~checkpoint_file.readable)
     => /\ requested' \subseteq requested
        /\ checkpoint_file' = checkpoint_file
        /\ details_checkpoint_file' = details_checkpoint_file
        /\ details_file' = details_file]_vars

(* C20: in a phase gated by a semaphore of MAX_CONCURRENT slots, at most   *)
(* MAX_CONCURRENT requests are in flight in every state, every slot is     *)
(* either free or held by a task that has not returned, and once every     *)
(* task has returned, with whatever outcome, all the slots are free.       *)
C20_SemaphoreBound ==
  /\ Cardinality({i \in Tasks : spc[i] = "get"}) <= MAX_CONCURRENT
  /\ sem \in 0..MAX_CONCURRENT
  /\ sem + SumSeq([i \in 1..NumTasks |-> sheld[i]]) = MAX_CONCURRENT
  /\ \A i \in Tasks : spc[i] = "done" => sheld[i] = 0
  /\ (\A i \in Tasks : spc[i] = "done") => sem = MAX_CONCURRENT

C20_Witness ==
  /\ \A i \in Tasks : spc[i] = "done"
  /\ sem = MAX_CONCURRENT
  /\ \E i \in Tasks : sstatus[i] = "success" /\ sretry[i] > 0
  /\ \E i \in Tasks : sstatus[i] = "error" /\ sretry[i] = MAX_RETRIES
  /\ \E i \in Tasks : sstatus[i] = "error" /\ sretry[i] = 0

DetailPhase == {"details", "details_batches", "details_workers", "details_save"}

RetryPhase == {"retry", "retry_batches", "retry_workers", "retry_save"}

(* the street discovery of this run has finished *)
DiscoveryDone ==
  probed = Streets /\ streets_file.exists /\ streets_file.streets = all_streets

(* the record phase of this run has finished *)
RecordsDone == records_file.exists /\ records = records_file.records

(* no detail request was issued yet and the detail fetch has not returned *)
DetailsNotStarted == requested = {} /\ details = EmptyMap /\ completed = EmptyMap

(* the detail fetch has returned *)
DetailsReturned ==
  /\ pending = {}
  /\ details = completed
  /\ DOMAIN details = TikSet(records)
  /\ requested \subseteq TikSet(records)

(* C21: a run of run_full_crawl enters its phases in the order street      *)
(* discovery, record fetch, detail fetch, export, done: in every state of  *)
(* a phase the phases before it have finished and no later phase has       *)
(* begun, and the export is reached only when the detail fetch has         *)
(* returned.                                                               *)
C21_PhaseOrder ==
  /\ (pc = "discover" /\ ~retry_errors) =>
       probed = {} /\ enumerated = {} /\ written = {} /\ DetailsNotStarted
  /\ pc \in {"records", "merge"} =>
       DiscoveryDone /\ DetailsNotStarted /\ ~streets_only
  /\ pc = "records" => enumerated = {} /\ written = {"streets"}
  /\ pc \in DetailPhase =>
       /\ DiscoveryDone /\ RecordsDone
       /\ ~streets_only /\ ~skip_details
       /\ details = EmptyMap
       /\ "details" \notin written
  /\ (pc = "export" /\ ~retry_errors) =>
       DiscoveryDone /\ RecordsDone /\ DetailsReturned
  /\ (pc = "done" /\ ~retry_errors) =>
       /\ DiscoveryDone
       /\ streets_only \/ RecordsDone
       /\ (streets_only \/ skip_details) \/ DetailsReturned

C21_Witness ==
  /\ pc = "done" /\ ~retry_errors /\ ~streets_only /\ ~skip_details
  /\ enumerated # {}
  /\ requested # {}
  /\ written = {"streets", "records", "details_checkpoint", "details"}

(* C22: a run with streets_only set ends after the street discovery: it    *)
(* walks no street, requests no detail and writes no file but the street   *)
(* snapshot; a run with skip_details set ends after the record phase: it   *)
(* requests no detail, writes neither the details snapshot nor the details *)
(* checkpoint and does not export.                                         *)
C22_StopFlags ==
  /\ (streets_only /\ pc # "idle") =>
       /\ pc \in {"discover", "done"}
       /\ pc = "done" => probed = Streets
       /\ enumerated = {} /\ requested = {}
       /\ written \subseteq {"streets"}
       /\ records_file = records_before
       /\ details_file = details_before
  /\ (skip_details /\ ~streets_only /\ pc # "idle") =>
       /\ pc \in {"discover", "records", "merge", "done"}
       /\ pc = "done" => RecordsDone
       /\ requested = {}
       /\ written \subseteq {"streets", "records", "checkpoint"}
       /\ details_file = details_before

C22_Witness ==
  /\ pc = "done" /\ skip_details /\ ~streets_only
  /\ enumerated # {}
  /\ "records" \in written
  /\ details_before.exists /\ details_file = details_before

(* C23: a run with retry_errors set tests no street code, walks no street  *)
(* and leaves the street snapshot and the record snapshot as it found      *)
(* them.                                                                   *)
C23_RetryBypasses ==
  retry_errors =>
    /\ pc \in RetryPhase \cup {"export", "done"}
    /\ probed = {} /\ enumerated = {}
    /\ written \subseteq {"details"}
    /\ streets_file = streets_before
    /\ records_file = records_before

C23_Witness ==
  /\ retry_errors /\ pc = "done"
  /\ requested # {}
  /\ streets_file.exists /\ streets_file.streets # <<>>
  /\ records_file.exists

(* C26: against a remote that stays as it is, a run that finds a street    *)
(* snapshot discovers the streets of that snapshot again and persists the  *)
(* same snapshot; when it is not forced, it computes no new code and no    *)
(* removed code.                                                           *)
C26_IdempotentDiscovery ==
  (pc \notin {"idle", "discover"} /\ ~retry_errors /\ streets_before.exists) =>
    /\ Range(all_streets) = Range(streets_before.streets)
    /\ streets_file = streets_before
    /\ ~force => new_codes = {} /\ removed_codes = {} /\ new_streets = <<>>

C26_Witness ==
  /\ pc = "records" /\ ~force /\ workers > 1
  /\ streets_before.exists
  /\ Cardinality(Range(all_streets)) > 1
  /\ new_codes = {}

(* C27: whatever the order in which the chunks of the multi-process record *)
(* fetch complete, the merged result holds the same record for each        *)
(* identifier: every result the fetch of these streets can give has the    *)
(* records of the one it gave.                                             *)
C27_MergeOrderIndependent ==
  pc = "merge" =>
    \A other \in EnumerateRecords(new_streets, workers) :
      Range(other) = Range(new_records)

(* C29: discover_streets returns as new_streets the empty list when there  *)
(* is no baseline street snapshot or force is set, and otherwise the       *)
(* discovered streets whose code the baseline does not hold.               *)
C29_NewStreetsAsDocumented ==
  pc = "records" =>
    IF force \/ ~streets_before.exists
    THEN new_streets = <<>>
    ELSE Range(new_streets) = Range(all_streets) \ Range(streets_before.streets)

(* C24: for a target that requires a credential and a run without one,     *)
(* the detail phase returns without a request, with one detail per input   *)
(* record, in the order of the records, that carries the record's          *)
(* tik_number and address.                                                 *)
C24_DegradesWithoutCredential ==
  (ypc = "returned" /\ yapi = "bakashot" /\ ~yid) =>
    /\ yrequests = {}
    /\ Len(ydetails) = Len(yrecs)
    /\ \A i \in DOMAIN yrecs :
         /\ ydetails[i].tik_number = yrecs[i].tik_number
         /\ ydetails[i].address = yrecs[i].address
         /\ ydetails[i].addresses = IF yrecs[i].address # "" THEN <<yrecs[i].address>>
                                    ELSE <<>>

C24_Witness ==
  /\ ypc = "returned" /\ yapi = "bakashot" /\ ~yid
  /\ Len(yrecs) = 2
  /\ yrecs[1].tik_number = yrecs[2].tik_number
  /\ yrecs[1].address # "" /\ yrecs[2].address = ""
  /\ Len(ydetails) = 2

(* C25: the fetch_status of every detail the detail phase returns is       *)
(* pending, success or error.                                              *)
C25_StatusDomain ==
  ypc = "returned" =>
    \A i \in DOMAIN ydetails : ydetails[i].fetch_status \in {"pending", "success", "error"}

(* C28: against a reliable remote whose street 389 has one building file,  *)
(* 389000400 at house number 4, a full run ends with the street set {389}, *)
(* one record, of 389000400, and one detail, with status success.          *)
C28_EndToEnd ==
  (epc = "done" /\ ehouses = {4}) =>
    /\ estreets = {389}
    /\ Len(erecords) = 1 /\ erecords[1].tik_number = 389000400
    /\ DOMAIN edetails = {389000400}
    /\ \A t \in DOMAIN edetails : edetails[t] = "success"
    /\ ErrorKeys(edetails) = {}

(* C30: the chunk size of the split does not depend on the number of       *)
(* workers: the first chunk of a work list is as long for every pool size. *)
C30_ChunkSizeFixed ==
  (cpc = "split" /\ cchunks # <<>>) =>
    \A w \in 2..MaxPool :
      Len(cchunks[1]) = Len(Chunks(cwork, ChunkSize(Len(cwork), w))[1])

(* C31: a retry-failed-only run started without a details snapshot issues  *)
(* no request, creates or modifies no snapshot or checkpoint file, and     *)
(* returns an empty result: it goes from its first test to its return.     *)
C31_MissingSnapshot ==
  (retry_errors /\ pc # "idle" /\ ~details_before.exists) =>
    /\ pc \in {"retry", "done"}
    /\ requested = {}
    /\ written = {}
    /\ details = EmptyMap
    /\ ~details_file.exists
    /\ streets_file = streets_before
    /\ records_file = records_before

C31_Witness ==
  /\ retry_errors /\ pc = "done" /\ ~details_before.exists
  /\ streets_file.exists /\ records_file.exists
  /\ details = EmptyMap

(* C32: at every instant of a non-forced run that enumerates new streets,  *)
(* the record snapshot holds every tik_number it held when the run         *)
(* started.                                                                *)
C32_RecordsNeverLost ==
  (pc # "idle" /\ ~force /\ ~retry_errors /\ new_streets # <<>>) =>
    TikSet(records_before.records) \subseteq TikSet(records_file.records)

(* the codes of a range <<first, last>> *)
CodesOf(r) == r[1]..r[2]

(* C33: for every scan range and worker count W >= 2 the code ranges       *)
(* handed to the discovery workers are pairwise disjoint and their union   *)
(* is the scan range; for every work list and W >= 2 the chunks handed to  *)
(* the record and detail workers hold every item exactly once, in the      *)
(* order of the list.                                                      *)
C33_ExactPartition ==
  /\ cranges # <<>> =>
       /\ UNION {CodesOf(cranges[i]) : i \in DOMAIN cranges} = CodesOf(crange)
       /\ \A i, j \in DOMAIN cranges :
            i # j => CodesOf(cranges[i]) \cap CodesOf(cranges[j]) = {}
  /\ cpc = "split" =>
       /\ Flatten(cchunks) = cwork
       /\ \A x \in Range(cwork) :
            Cardinality({<<i, j>> \in (DOMAIN cchunks) \X (1..MaxItems + 1) :
                           j <= Len(cchunks[i]) /\ cchunks[i][j] = x}) = 1

C33_Witness ==
  /\ cpc = "split" /\ Len(cwork) = 5 /\ cw = 2
  /\ Len(cchunks) = 3 /\ Len(cchunks[3]) = 1
  /\ crange = <<1, 5>> /\ Len(cranges) = 2 /\ cranges[2] = <<3, 5>>

(* C34: the detail that a finished fetch returns, after a parsed 200       *)
(* response, a no-data response, a non-200 status, exhausted timeouts or   *)
(* an exception, has status success or error, never pending, in the        *)
(* in-process and in the worker variants; a fetch that has not returned    *)
(* has produced no detail.                                                 *)
C34_LeavesPending ==
  IF fpc = "done"
  THEN fhist # <<>> /\ fresult.status \in {"success", "error"}
  ELSE fresult = None

C34_Witness ==
  /\ fv = "worker"
  /\ fpc = "done"
  /\ fhist = <<"timeout", "ok">>
  /\ fresult.status = "success"

(* C35: a record is not changed once it is stored: during a non-forced     *)
(* run, the record that the snapshot holds for a tik_number it held when   *)
(* the run started has the fields it had then, whichever street of the    *)
(* run surfaces the tik_number again.                                      *)
C35_RecordsImmutable ==
  (pc # "idle" /\ ~force /\ ~retry_errors) =>
    \A i \in DOMAIN records_before.records, j \in DOMAIN records_file.records :
      records_before.records[i].tik_number = records_file.records[j].tik_number
        => records_file.records[j] = records_before.records[i]

(* what implementation v does over the outcomes hist of its requests, from *)
(* the attempt numbered retry on: the requests issued, the sleeps waited   *)
(* and the status returned ("pending" while it has not returned)           *)
RECURSIVE Replay(_, _, _, _)
Replay(v, hist, retry, delays) ==
  IF hist = <<>>
  THEN [requests |-> retry, delays |-> delays, status |-> "pending"]
  ELSE LET h == Attempt(v, Head(hist), retry) IN
         IF h.act = "return"
         THEN [requests |-> retry + 1, delays |-> delays, status |-> h.status]
         ELSE Replay(v, Tail(hist), retry + 1,
                     IF h.sleeps THEN Append(delays, h.delay) ELSE delays)

(* C36: over the same outcomes, RequestFetcher.fetch_request issues as     *)
(* many requests, waits the same delays and returns the same status as     *)
(* the worker path async_fetch_request_detail.                             *)
C36_RequestPathsEquivalent ==
  (fv = "reqworker" /\ fpc = "done") =>
    LET inprocess == Replay("request", fhist, 0, <<>>) IN
      /\ inprocess.requests = Len(fhist)
      /\ inprocess.delays = fdelays
      /\ inprocess.status = fresult.status

====
